---------------------------- MODULE Spec2Model ----------------------------
(***************************************************************************)
(* GenAds backend (src/main.py, src/schemas.py): HTTP handlers over a      *)
(* document store with the collections "user" and "videojob".              *)
(*                                                                         *)
(* A handler that makes one store round trip is one action.  signup makes   *)
(* two (its email lookup, its insert) and dashboard_summary three (two      *)
(* counts and a find); each round trip is a step of its own, and other      *)
(* requests may land between them.  The module database (db, create_document) is not part of the     *)
(* sources at hand; its operators are modelled from the specification and  *)
(* say so where they are defined.                                          *)
(***************************************************************************)
EXTENDS Integers, Sequences, FiniteSets, TLC

VARIABLES
    dbUp,        \* db is not None (set once, when the process starts)
    users,       \* collection "user": documents in insertion order
    jobs,        \* collection "videojob": documents in insertion order
    oidCounter,  \* identifiers generated so far
    clock,       \* the store's creation clock (created_at of the last insert)
    pending,     \* per request slot: a signup between its lookup and its insert
    overlapped,  \* history: some signup ran its lookup while another was in flight
    dash,        \* the dashboard request in flight: its position and what it has read
    dashClean,   \* history: no write to videojob landed between the queries of the
                 \* last dashboard answered
    req,         \* the last request handled
    resp         \* its response

vars == <<dbUp, users, jobs, oidCounter, clock, pending, overlapped, dash, dashClean, req, resp>>

---------------------------------------------------------------------------
(* Bounds of the model *)

MaxUsers == 2

MaxNewJobs == 2

MaxInflight == 2

Slots == 1..MaxInflight

---------------------------------------------------------------------------
(* Values *)

None == "<None>"

NoBody == [error |-> TRUE]

Min(a, b) == IF a < b THEN a ELSE b

\* The detail Starlette's ServerErrorMiddleware sends for an exception no
\* handler catches.
InternalServerError == [status |-> 500, detail |-> "Internal Server Error", body |-> NoBody]

\* FastAPI's answer to a request whose parameters or body fail validation.
RequestValidationError == [status |-> 422, detail |-> "Unprocessable Entity", body |-> NoBody]

HTTPException(status_code, detail) == [status |-> status_code, detail |-> detail, body |-> NoBody]

Ok(body) == [status |-> 200, detail |-> "", body |-> body]

---------------------------------------------------------------------------
(* pydantic.EmailStr: validates an address and returns its normalised form *)
(* (the domain in lower case).                                             *)

EmailInputs == {"ann@x.io", "ann@X.IO", "bob@x.io", "not-an-email"}

EmailStr_valid(s) == s \in {"ann@x.io", "ann@X.IO", "bob@x.io"}

EmailStr(s) == IF s = "ann@X.IO" THEN "ann@x.io" ELSE s

(* hashlib.sha256(password.encode()).hexdigest() *)
sha256_hexdigest(p) ==
    CASE p = "hunter2" -> "f52fbd32b2b3b86ff88ef6c490628285f482af15ddcb29541f94bcf526a3f6c7"
      [] p = "letmein" -> "1c8bfe8f801d79745c4631d09fff36c82aa37fc4cce4fc946683d7b336b63032"

(* bson.ObjectId(s): a string of 24 hexadecimal digits, in either case,    *)
(* denotes an identifier; anything else raises InvalidId.  str(ObjectId)   *)
(* is the lower-case form.  A path parameter is <<kind, n>>: "hex" and     *)
(* "HEX" are the lower- and upper-case spellings of identifier n, "bad" is *)
(* a string that is no identifier.                                         *)
ObjectId_valid(s) == s[1] \in {"hex", "HEX"}

ObjectId(s) == s[2]

ObjectId_str(oid) == <<"hex", oid>>

---------------------------------------------------------------------------
(* database.create_document(collection_name, data): "assigns a new unique  *)
(* identifier, inserts the record, returns the identifier"; the record is  *)
(* stamped with its creation time, the field the dashboard sorts on.       *)

create_document(collection, data) ==
    Append(collection,
           data @@ [_id |-> oidCounter + 1,
                    created_at |-> clock + 1,
                    updated_at |-> clock + 1])

\* The truth value of the module-wide handle db, as line 74 tests it.
db_truthy == dbUp

\* db[collection].find_one(filter): the index of the first matching document
\* in the collection's natural order, 0 for None.
First(S) == IF S = {} THEN 0 ELSE CHOOSE i \in S : \A j \in S : i <= j

find_one_email(collection, email) ==
    First({i \in 1..Len(collection) : collection[i].email = email})

find_one_id(collection, oid) ==
    First({i \in 1..Len(collection) : collection[i]._id = oid})

---------------------------------------------------------------------------
(* POST /auth/signup and POST /auth/signin *)

SignUpInputs ==
    { [name |-> "Ann", email |-> "ann@x.io", password |-> "hunter2"],
      [name |-> "Ann B", email |-> "ann@X.IO", password |-> "letmein"],
      [name |-> "Bob", email |-> "bob@x.io", password |-> "hunter2"],
      [name |-> "Eve", email |-> "not-an-email", password |-> "hunter2"] }

SignInInputs == [email : EmailInputs, password : {"hunter2", "letmein"}]

NoPayload == [name |-> "", email |-> "", password |-> ""]

Idle == [pc |-> "idle", payload |-> NoPayload]

InFlight(r) == pending[r].pc = "create"

\* schemas.User(name, email, password_hash).model_dump()
User(name, email, password_hash) ==
    [name |-> name, email |-> email, password_hash |-> password_hash, avatar_url |-> None]

\* Mutant of signup_find: the lookup's result is ignored.
signup_find_unchecked(r, payload) ==
    /\ ~InFlight(r)
    /\ IF ~EmailStr_valid(payload.email)
       THEN /\ resp' = RequestValidationError
            /\ req' = [op |-> "signup", input |-> payload]
            /\ UNCHANGED <<pending, overlapped>>
       ELSE /\ pending' = [pending EXCEPT ![r] = [pc |-> "create", payload |-> payload]]
            /\ overlapped' = (overlapped \/ \E q \in Slots \ {r} : InFlight(q))
            /\ UNCHANGED <<req, resp>>
    /\ UNCHANGED <<dbUp, users, jobs, oidCounter, clock, dash, dashClean>>

\* signup, lines 71-76: the request body is parsed (SignUpRequest), then the
\* email is looked up; a request that passes goes on to its insert.
signup_find(r, payload) ==
    /\ ~InFlight(r)
    /\ IF ~EmailStr_valid(payload.email)
       THEN /\ resp' = RequestValidationError
            /\ req' = [op |-> "signup", input |-> payload]
            /\ UNCHANGED <<pending, overlapped>>
       ELSE IF db_truthy /\ find_one_email(users, EmailStr(payload.email)) # 0
       THEN /\ resp' = HTTPException(400, "Email already registered")
            /\ req' = [op |-> "signup", input |-> payload]
            /\ UNCHANGED <<pending, overlapped>>
       ELSE /\ pending' = [pending EXCEPT ![r] = [pc |-> "create", payload |-> payload]]
            /\ overlapped' = (overlapped \/ \E q \in Slots \ {r} : InFlight(q))
            /\ UNCHANGED <<req, resp>>
    /\ UNCHANGED <<dbUp, users, jobs, oidCounter, clock, dash, dashClean>>

\* Mutant of signup_create: the insert looks the email up again and refuses a
\* duplicate.
signup_create_rechecked(r) ==
    /\ InFlight(r)
    /\ LET payload == pending[r].payload
           user == User(payload.name, EmailStr(payload.email),
                        sha256_hexdigest(payload.password))
       IN  /\ req' = [op |-> "signup", input |-> payload]
           /\ IF ~dbUp
              THEN /\ resp' = InternalServerError
                   /\ UNCHANGED <<users, oidCounter, clock>>
              ELSE IF find_one_email(users, user.email) # 0
              THEN /\ resp' = HTTPException(400, "Email already registered")
                   /\ UNCHANGED <<users, oidCounter, clock>>
              ELSE /\ Len(users) < MaxUsers
                   /\ users' = create_document(users, user)
                   /\ oidCounter' = oidCounter + 1
                   /\ clock' = clock + 1
                   /\ resp' = Ok([id |-> ObjectId_str(oidCounter + 1),
                                  name |-> user.name, email |-> user.email])
    /\ pending' = [pending EXCEPT ![r] = Idle]
    /\ UNCHANGED <<dbUp, jobs, overlapped, dash, dashClean>>

\* signup, lines 78-81: hash, build the User, create_document, respond.
\* create_document refuses to write when the store is unavailable.
signup_create(r) ==
    /\ InFlight(r)
    /\ LET payload == pending[r].payload
           user == User(payload.name, EmailStr(payload.email),
                        sha256_hexdigest(payload.password))
       IN  /\ req' = [op |-> "signup", input |-> payload]
           /\ IF ~dbUp
              THEN /\ resp' = InternalServerError
                   /\ UNCHANGED <<users, oidCounter, clock>>
              ELSE /\ Len(users) < MaxUsers
                   /\ users' = create_document(users, user)
                   /\ oidCounter' = oidCounter + 1
                   /\ clock' = clock + 1
                   /\ resp' = Ok([id |-> ObjectId_str(oidCounter + 1),
                                  name |-> user.name, email |-> user.email])
    /\ pending' = [pending EXCEPT ![r] = Idle]
    /\ UNCHANGED <<dbUp, jobs, overlapped, dash, dashClean>>

\* Mutant of signin: an unknown email is told apart from a wrong password.
signin_leaky(payload) ==
    /\ req' = [op |-> "signin", input |-> payload]
    /\ resp' =
         IF ~EmailStr_valid(payload.email) THEN RequestValidationError
         ELSE IF ~dbUp THEN HTTPException(500, "Database not available")
         ELSE LET u == find_one_email(users, EmailStr(payload.email))
              IN  IF u = 0 THEN HTTPException(404, "User not found")
                  ELSE IF users[u].password_hash # sha256_hexdigest(payload.password)
                  THEN HTTPException(401, "Invalid credentials")
                  ELSE Ok([message |-> "signed_in",
                           email |-> EmailStr(payload.email),
                           name |-> users[u].name,
                           avatar_url |-> users[u].avatar_url])
    /\ UNCHANGED <<dbUp, users, jobs, oidCounter, clock, pending, overlapped, dash, dashClean>>

\* signin, lines 85-94.
signin(payload) ==
    /\ req' = [op |-> "signin", input |-> payload]
    /\ resp' =
         IF ~EmailStr_valid(payload.email) THEN RequestValidationError
         ELSE IF ~dbUp THEN HTTPException(500, "Database not available")
         ELSE LET u == find_one_email(users, EmailStr(payload.email))
              IN  IF u = 0 THEN HTTPException(401, "Invalid credentials")
                  ELSE IF users[u].password_hash # sha256_hexdigest(payload.password)
                  THEN HTTPException(401, "Invalid credentials")
                  ELSE Ok([message |-> "signed_in",
                           email |-> EmailStr(payload.email),
                           name |-> users[u].name,
                           avatar_url |-> users[u].avatar_url])
    /\ UNCHANGED <<dbUp, users, jobs, oidCounter, clock, pending, overlapped, dash, dashClean>>

---------------------------------------------------------------------------
(* schemas.VideoJob and the request body StepThree *)

AspectRatios == {"1:1", "9:16", "16:9", "4:5", "21:9"}

Statuses == {"queued", "processing", "completed", "failed", "finalized"}

duration_seconds_ge == 5

duration_seconds_le == 120

\* pydantic.HttpUrl: an absolute http(s) URL, kept in its normalised form (a
\* URL with an empty path gets the path "/").
HttpUrl_valid(s) == s \in {"https://cdn.x.io/p.png", "https://cdn.x.io"}

HttpUrl(s) == IF s = "https://cdn.x.io" THEN "https://cdn.x.io/" ELSE s

OptionalHttpUrl_valid(s) == s = None \/ HttpUrl_valid(s)

OptionalHttpUrl(s) == IF s = None THEN None ELSE HttpUrl(s)

Body(owner_email, aspect_ratio, duration_seconds, product_image_url) ==
    [owner_email |-> owner_email,
     project_name |-> "Launch",
     brand_name |-> "Acme",
     brand_detail |-> "Shoes",
     creative_prompt |-> "A runner at dawn",
     target_audience |-> "Runners",
     video_style |-> "Cinematic",
     aspect_ratio |-> aspect_ratio,
     duration_seconds |-> duration_seconds,
     product_image_url |-> product_image_url,
     brand_logo_url |-> None,
     brand_guideline_url |-> None,
     reference_image_url |-> None]

ValidJobInputs ==
    { Body("ann@x.io", "1:1", 5, None),
      Body("ann@x.io", "9:16", 120, None),
      Body("bob@x.io", "16:9", 5, "https://cdn.x.io/p.png"),
      Body("ann@x.io", "4:5", 120, "https://cdn.x.io"),
      Body("bob@x.io", "21:9", 15, None) }

InvalidJobInputs ==
    { Body("ann@x.io", "1:1", 4, None),
      Body("ann@x.io", "1:1", 121, None),
      Body("ann@x.io", "4:3", 15, None),
      Body("ann@x.io", "16:9", 15, "not a url"),
      Body("not-an-email", "16:9", 15, None) }

JobInputs == ValidJobInputs \cup InvalidJobInputs

PayloadFields == DOMAIN Body("ann@x.io", "1:1", 5, None)

\* StepThree: the request body as FastAPI parses it (aspect_ratio a str,
\* duration_seconds an int, the URLs optional strs).
StepThree_valid(job) == EmailStr_valid(job.owner_email)

StepThree(job) == [job EXCEPT !.owner_email = EmailStr(job.owner_email)]

\* VideoJob(**job.model_dump(), status=...): pydantic raises ValidationError
\* unless every field constraint holds.
VideoJob_valid(job, status) ==
    /\ EmailStr_valid(job.owner_email)
    /\ job.aspect_ratio \in AspectRatios
    /\ job.duration_seconds >= duration_seconds_ge
    /\ job.duration_seconds <= duration_seconds_le
    /\ OptionalHttpUrl_valid(job.product_image_url)
    /\ OptionalHttpUrl_valid(job.brand_logo_url)
    /\ OptionalHttpUrl_valid(job.brand_guideline_url)
    /\ OptionalHttpUrl_valid(job.reference_image_url)
    /\ status \in Statuses

VideoJob(job, status) ==
    [owner_email |-> EmailStr(job.owner_email),
     project_id |-> None,
     project_name |-> job.project_name,
     brand_name |-> job.brand_name,
     brand_detail |-> job.brand_detail,
     creative_prompt |-> job.creative_prompt,
     target_audience |-> job.target_audience,
     video_style |-> job.video_style,
     aspect_ratio |-> job.aspect_ratio,
     duration_seconds |-> job.duration_seconds,
     product_image_url |-> OptionalHttpUrl(job.product_image_url),
     brand_logo_url |-> OptionalHttpUrl(job.brand_logo_url),
     brand_guideline_url |-> OptionalHttpUrl(job.brand_guideline_url),
     reference_image_url |-> OptionalHttpUrl(job.reference_image_url),
     status |-> status,
     thumbnail_url |-> None,
     video_url |-> None,
     notes |-> None]

---------------------------------------------------------------------------
(* The videojob endpoints *)

\* limit(20) of the dashboard query.
DashboardLimit == 20

\* d["id"] = str(d["_id"]) ; d.pop("_id", None)
with_id(doc) ==
    [f \in (DOMAIN doc \ {"_id"}) \cup {"id"} |->
        IF f = "id" THEN ObjectId_str(doc._id) ELSE doc[f]]

DashIdle == [pc |-> "idle", email |-> "", total |-> 0, processing |-> 0, clean |-> TRUE]

\* History: a write that changes the videojob collection while a dashboard
\* request is between its queries is noted in that request.
NoteWrite ==
    dash' = IF dash.pc # "idle" /\ jobs' # jobs THEN [dash EXCEPT !.clean = FALSE] ELSE dash

\* Mutant of create_video: the job is stored as "queued".
create_video_queued(job) ==
    /\ req' = [op |-> "create", input |-> job]
    /\ IF ~StepThree_valid(job)
       THEN /\ resp' = RequestValidationError
            /\ UNCHANGED <<jobs, oidCounter, clock>>
       ELSE IF ~VideoJob_valid(StepThree(job), "queued") \/ ~dbUp
       THEN /\ resp' = InternalServerError
            /\ UNCHANGED <<jobs, oidCounter, clock>>
       ELSE LET vj == VideoJob(StepThree(job), "queued")
            IN  /\ clock < MaxNewJobs
                /\ jobs' = create_document(jobs, vj)
                /\ oidCounter' = oidCounter + 1
                /\ clock' = clock + 1
                /\ resp' = Ok([id |-> ObjectId_str(oidCounter + 1), status |-> vj.status])
    /\ NoteWrite
    /\ UNCHANGED <<dbUp, users, pending, overlapped, dashClean>>

\* create_video, lines 145-149.  A ValidationError raised by VideoJob inside
\* the handler is caught by nothing and leaves as a server error; so does
\* create_document's refusal when the store is unavailable.
create_video(job) ==
    /\ req' = [op |-> "create", input |-> job]
    /\ IF ~StepThree_valid(job)
       THEN /\ resp' = RequestValidationError
            /\ UNCHANGED <<jobs, oidCounter, clock>>
       ELSE IF ~VideoJob_valid(StepThree(job), "processing")
       THEN /\ resp' = InternalServerError
            /\ UNCHANGED <<jobs, oidCounter, clock>>
       ELSE IF ~dbUp
       THEN /\ resp' = InternalServerError
            /\ UNCHANGED <<jobs, oidCounter, clock>>
       ELSE LET vj == VideoJob(StepThree(job), "processing")
            IN  /\ clock < MaxNewJobs
                /\ jobs' = create_document(jobs, vj)
                /\ oidCounter' = oidCounter + 1
                /\ clock' = clock + 1
                /\ resp' = Ok([id |-> ObjectId_str(oidCounter + 1), status |-> vj.status])
    /\ NoteWrite
    /\ UNCHANGED <<dbUp, users, pending, overlapped, dashClean>>

\* Mutant of get_video_response: InvalidId is not caught.
get_video_response_uncaught(store, job_id) ==
    IF ~ObjectId_valid(job_id) THEN InternalServerError
    ELSE LET i == find_one_id(store, ObjectId(job_id))
         IN  IF i = 0 THEN HTTPException(404, "Not found") ELSE Ok(with_id(store[i]))

\* The response of get_video against a store, lines 154-163.
get_video_response(store, job_id) ==
    LET i == IF ObjectId_valid(job_id) THEN find_one_id(store, ObjectId(job_id)) ELSE 0
    IN  IF i = 0 THEN HTTPException(404, "Not found") ELSE Ok(with_id(store[i]))

get_video(job_id) ==
    /\ req' = [op |-> "get", input |-> [job_id |-> job_id]]
    /\ resp' = IF ~dbUp THEN HTTPException(500, "Database not available")
               ELSE get_video_response(jobs, job_id)
    /\ UNCHANGED <<dbUp, users, jobs, oidCounter, clock, pending, overlapped, dash, dashClean>>

\* Mutant of update_one_status: update_one(..., upsert=True).
update_one_status_upsert(collection, oid, status) ==
    LET i == find_one_id(collection, oid)
    IN  IF i = 0 THEN Append(collection, [_id |-> oid, status |-> status])
        ELSE [collection EXCEPT ![i].status = status]

\* db["videojob"].update_one({"_id": oid}, {"$set": {"status": status}}): the
\* first matching document is updated; no match is no error and no insert.
update_one_status(collection, oid, status) ==
    LET i == find_one_id(collection, oid)
    IN  IF i = 0 THEN collection ELSE [collection EXCEPT ![i].status = status]

\* Mutant of finalize_video: a job that is already finalized is refused.
finalize_video_once(job_id) ==
    /\ req' = [op |-> "finalize", input |-> [job_id |-> job_id]]
    /\ IF ~dbUp
       THEN /\ resp' = HTTPException(500, "Database not available")
            /\ UNCHANGED jobs
       ELSE IF ~ObjectId_valid(job_id)
       THEN /\ resp' = HTTPException(400, "Invalid id")
            /\ UNCHANGED jobs
       ELSE IF /\ find_one_id(jobs, ObjectId(job_id)) # 0
               /\ jobs[find_one_id(jobs, ObjectId(job_id))].status = "finalized"
       THEN /\ resp' = HTTPException(409, "Already finalized")
            /\ UNCHANGED jobs
       ELSE /\ jobs' = update_one_status(jobs, ObjectId(job_id), "finalized")
            /\ resp' = Ok([id |-> job_id, status |-> "finalized"])
    /\ NoteWrite
    /\ UNCHANGED <<dbUp, users, oidCounter, clock, pending, overlapped, dashClean>>

\* finalize_video, lines 167-174.
finalize_video(job_id) ==
    /\ req' = [op |-> "finalize", input |-> [job_id |-> job_id]]
    /\ IF ~dbUp
       THEN /\ resp' = HTTPException(500, "Database not available")
            /\ UNCHANGED jobs
       ELSE IF ~ObjectId_valid(job_id)
       THEN /\ resp' = HTTPException(400, "Invalid id")
            /\ UNCHANGED jobs
       ELSE /\ jobs' = update_one_status(jobs, ObjectId(job_id), "finalized")
            /\ resp' = Ok([id |-> job_id, status |-> "finalized"])
    /\ NoteWrite
    /\ UNCHANGED <<dbUp, users, oidCounter, clock, pending, overlapped, dashClean>>

\* Mutant of sort_created_at_desc: sort("created_at", 1).
RECURSIVE sort_created_at_asc(_, _)
sort_created_at_asc(collection, S) ==
    IF S = {} THEN <<>>
    ELSE LET m == CHOOSE i \in S :
                    \A j \in S : collection[j].created_at >= collection[i].created_at
         IN  <<collection[m]>> \o sort_created_at_asc(collection, S \ {m})

\* find({"owner_email": email}).sort("created_at", -1): the matching documents,
\* the latest created first.
RECURSIVE sort_created_at_desc(_, _)
sort_created_at_desc(collection, S) ==
    IF S = {} THEN <<>>
    ELSE LET m == CHOOSE i \in S :
                    \A j \in S : collection[j].created_at <= collection[i].created_at
         IN  <<collection[m]>> \o sort_created_at_desc(collection, S \ {m})

limit(docs, n) == SubSeq(docs, 1, Min(n, Len(docs)))

owned_by(collection, owner) == {i \in 1..Len(collection) : collection[i].owner_email = owner}

\* dashboard_summary, lines 99-102: the query parameter is validated, the
\* handle is tested, and the first query counts the owner's jobs.
dashboard_summary_total(email) ==
    /\ dash.pc = "idle"
    /\ IF ~EmailStr_valid(email)
       THEN /\ resp' = RequestValidationError
            /\ req' = [op |-> "dashboard", input |-> [email |-> email]]
            /\ UNCHANGED dash
       ELSE IF ~dbUp
       THEN /\ resp' = HTTPException(500, "Database not available")
            /\ req' = [op |-> "dashboard", input |-> [email |-> email]]
            /\ UNCHANGED dash
       ELSE /\ dash' = [pc |-> "processing",
                        email |-> EmailStr(email),
                        total |-> Cardinality(owned_by(jobs, EmailStr(email))),
                        processing |-> 0,
                        clean |-> TRUE]
            /\ UNCHANGED <<req, resp>>
    /\ UNCHANGED <<dbUp, users, jobs, oidCounter, clock, pending, overlapped, dashClean>>

\* dashboard_summary, line 103: the second query counts the owner's jobs whose
\* status is queued or processing.
dashboard_summary_processing ==
    /\ dash.pc = "processing"
    /\ dash' = [dash EXCEPT
                  !.pc = "find",
                  !.processing =
                      Cardinality({i \in owned_by(jobs, dash.email) :
                                      jobs[i].status \in {"queued", "processing"}})]
    /\ UNCHANGED <<dbUp, users, jobs, oidCounter, clock, pending, overlapped, dashClean, req, resp>>

\* dashboard_summary, lines 104-107: the third query finds the owner's latest
\* jobs, and the response is put together from the three results.
dashboard_summary_videos ==
    /\ dash.pc = "find"
    /\ LET latest_docs ==
               limit(sort_created_at_desc(jobs, owned_by(jobs, dash.email)), DashboardLimit)
       IN  resp' = Ok([total |-> dash.total,
                       processing |-> dash.processing,
                       videos |-> [k \in 1..Len(latest_docs) |-> with_id(latest_docs[k])]])
    /\ req' = [op |-> "dashboard", input |-> [email |-> dash.email]]
    /\ dashClean' = dash.clean
    /\ dash' = DashIdle
    /\ UNCHANGED <<dbUp, users, jobs, oidCounter, clock, pending, overlapped>>

---------------------------------------------------------------------------
(* Specifications *)

NoRequest == [op |-> "none", input |-> [none |-> TRUE]]

NoResponse == [status |-> 0, detail |-> "", body |-> NoBody]

\* A store that earlier requests left behind: DashboardLimit jobs of one
\* owner, created and finalized before this process started (their creation
\* times precede the process's clock).
StoredBefore ==
    [i \in 1..DashboardLimit |->
        VideoJob(Body("ann@x.io", "1:1", 5, None), "finalized")
          @@ [_id |-> i,
              created_at |-> i - DashboardLimit,
              updated_at |-> i - DashboardLimit]]

InitCommon ==
    /\ dbUp \in BOOLEAN
    /\ users = <<>>
    /\ clock = 0
    /\ pending = [r \in Slots |-> Idle]
    /\ overlapped = FALSE
    /\ dash = DashIdle
    /\ dashClean = TRUE
    /\ req = NoRequest
    /\ resp = NoResponse

InitAuth ==
    /\ InitCommon
    /\ jobs = <<>>
    /\ oidCounter = 0

InitVideo ==
    /\ InitCommon
    /\ jobs = <<>>
    /\ oidCounter = 0

InitDash ==
    /\ InitCommon
    /\ jobs \in {<<>>, StoredBefore}
    /\ oidCounter = Len(jobs)

\* The ids requests name under SpecVideo: the ids this process can assign and
\* one more, in lower case; ids in upper case; a malformed id.
JobIdInputs ==
    ({"hex"} \X (1..(MaxNewJobs + 1)))
      \cup ({"HEX"} \X {1, MaxNewJobs + 1})
      \cup {<<"bad", 0>>}

\* The requests made under SpecDash: jobs of two owners and a refused one;
\* finalizes of the first job this process stores (from either initial store)
\* and of the latest job stored before.
DashJobInputs ==
    { Body("ann@x.io", "1:1", 5, None),
      Body("bob@x.io", "21:9", 15, None),
      Body("ann@x.io", "1:1", 4, None) }

DashIdInputs == {<<"hex", 1>>, <<"hex", DashboardLimit>>, <<"HEX", DashboardLimit + 1>>}

NextAuth ==
    \/ \E r \in Slots, payload \in SignUpInputs : signup_find(r, payload)
    \/ \E r \in Slots : signup_create(r)
    \/ \E payload \in SignInInputs : signin(payload)

NextVideo ==
    \/ \E job \in JobInputs : create_video(job)
    \/ \E job_id \in JobIdInputs : get_video(job_id)
    \/ \E job_id \in JobIdInputs : finalize_video(job_id)

\* The dashboard among the writes to videojob, which may land between its
\* queries.
NextDash ==
    \/ \E job \in DashJobInputs : create_video(job)
    \/ \E job_id \in DashIdInputs : finalize_video(job_id)
    \/ \E email \in EmailInputs : dashboard_summary_total(email)
    \/ dashboard_summary_processing
    \/ dashboard_summary_videos

SpecAuth == InitAuth /\ [][NextAuth]_vars

SpecVideo == InitVideo /\ [][NextVideo]_vars

SpecDash == InitDash /\ [][NextDash]_vars

---------------------------------------------------------------------------
(* Properties of the auth endpoints, checked under SpecAuth *)

HasEmail(collection, email) == \E i \in 1..Len(collection) : collection[i].email = email

UniqueEmails(collection) ==
    \A i, j \in 1..Len(collection) : collection[i].email = collection[j].email => i = j

\* C1: with the store available, a sign-up whose (normalised) email already
\* belongs to a stored user answers 400 "Email already registered" and inserts
\* nothing; as long as no two sign-ups have overlapped, no two user records
\* hold the same email.
C1_DuplicateSignupRejected ==
    [][ /\ \A r \in Slots, payload \in SignUpInputs :
             ( /\ dbUp
               /\ EmailStr_valid(payload.email)
               /\ HasEmail(users, EmailStr(payload.email))
               /\ signup_find(r, payload) )
             => /\ resp' = HTTPException(400, "Email already registered")
                /\ req' = [op |-> "signup", input |-> payload]
                /\ users' = users
                /\ pending' = pending
        /\ (~overlapped' => UniqueEmails(users')) ]_vars

\* A second, non-overlapping sign-up with a registered email (spelled with
\* another case of the domain) has been refused.
C1_Witness ==
    /\ dbUp
    /\ ~overlapped
    /\ req.op = "signup"
    /\ req.input.email = "ann@X.IO"
    /\ resp = HTTPException(400, "Email already registered")
    /\ Len(users) = 1
    /\ users[1].email = "ann@x.io"

\* C8: sign in answers 401 "Invalid credentials", the same response, whether
\* the email is unknown or the password hash differs; it answers 200 only if
\* a stored user has the email and the hash of the password; it never changes
\* the store.
C8_SigninUniformFailure ==
    [][ \A payload \in SignInInputs :
          ( /\ dbUp
            /\ EmailStr_valid(payload.email)
            /\ signin(payload) )
          => LET good == \E i \in 1..Len(users) :
                            /\ users[i].email = EmailStr(payload.email)
                            /\ users[i].password_hash = sha256_hexdigest(payload.password)
             IN  /\ users' = users
                 /\ jobs' = jobs
                 /\ resp'.status \in {200, 401}
                 /\ (resp'.status = 200 => good)
                 /\ (resp'.status # 200 => resp' = HTTPException(401, "Invalid credentials"))
                 /\ (~good => resp'.status # 200) ]_vars

\* A registered email with the wrong password has been refused.
C8_Witness ==
    /\ dbUp
    /\ req.op = "signin"
    /\ HasEmail(users, EmailStr(req.input.email))
    /\ \A i \in 1..Len(users) :
          users[i].password_hash # sha256_hexdigest(req.input.password)
    /\ resp = HTTPException(401, "Invalid credentials")

\* C9: the insert of a sign-up does not look the email up again: a request
\* that passed its lookup inserts its user and answers 200 whatever the
\* collection holds by then, so two requests whose lookups both ran first
\* both succeed.
C9_SignupInsertUnchecked ==
    [][ \A r \in Slots :
          ( /\ dbUp
            /\ signup_create(r) )
          => /\ Len(users') = Len(users) + 1
             /\ SubSeq(users', 1, Len(users)) = users
             /\ users'[Len(users')].email = EmailStr(pending[r].payload.email)
             /\ resp'.status = 200
             /\ resp'.body.email = EmailStr(pending[r].payload.email) ]_vars

\* Two user records hold the same email, the second just inserted.
C9_Witness ==
    /\ dbUp
    /\ overlapped
    /\ Len(users) = 2
    /\ users[1].email = users[2].email
    /\ req.op = "signup"
    /\ resp.status = 200

---------------------------------------------------------------------------
(* Properties of the videojob endpoints, checked under SpecVideo and SpecDash *)

Stored(oid) == \E i \in 1..Len(jobs) : jobs[i]._id = oid

IndexOf(oid) == CHOOSE i \in 1..Len(jobs) : jobs[i]._id = oid

\* C2: a create with duration_seconds outside 5..120 or an aspect_ratio
\* outside the five listed is refused with a client error (4xx) and writes
\* nothing; with duration_seconds 5 or 120 and a listed aspect ratio it is
\* accepted and writes exactly one record.
C2_ValidationIsClientError ==
    [][ \A job \in JobInputs :
          ( /\ dbUp
            /\ EmailStr_valid(job.owner_email)
            /\ create_video(job) )
          => IF \/ job.duration_seconds < 5
                \/ job.duration_seconds > 120
                \/ job.aspect_ratio \notin {"1:1", "9:16", "16:9", "4:5", "21:9"}
             THEN /\ resp'.status \in 400..499
                  /\ jobs' = jobs
             ELSE job.duration_seconds \in {5, 120}
                    => /\ resp'.status = 200
                       /\ Len(jobs') = Len(jobs) + 1 ]_vars

\* C3: a job is stored with status "processing"; stored statuses are
\* "processing" or "finalized"; a stored job changes only in a finalize of its
\* id, and only in its status, to "finalized"; a finalized job stays finalized.
C3_StatusLifecycle ==
    [][ /\ \A i \in 1..Len(jobs') : jobs'[i].status \in {"processing", "finalized"}
        /\ Len(jobs') >= Len(jobs)
        /\ \A i \in 1..Len(jobs) :
             /\ \/ jobs'[i] = jobs[i]
                \/ /\ jobs'[i] = [jobs[i] EXCEPT !.status = "finalized"]
                   /\ \E job_id \in JobIdInputs :
                         /\ ObjectId_valid(job_id)
                         /\ ObjectId(job_id) = jobs[i]._id
                         /\ finalize_video(job_id)
             /\ jobs[i].status = "finalized" => jobs'[i].status = "finalized"
        /\ \A i \in (Len(jobs) + 1)..Len(jobs') :
             /\ jobs'[i].status = "processing"
             /\ \E job \in JobInputs : create_video(job) ]_vars

\* Of two jobs created by this process, one has been finalized and the other
\* is still processing.
C3_Witness ==
    \E i, j \in 1..Len(jobs) :
        /\ jobs[i].created_at > 0
        /\ jobs[j].created_at > 0
        /\ jobs[i].status = "finalized"
        /\ jobs[j].status = "processing"
        /\ req.op = "finalize"

\* C4: finalizing a stored job answers 200 with the id and "finalized", sets
\* that job's status and changes nothing else; on a job that is already
\* finalized it answers the same and leaves the store as it is.
C4_FinalizeIdempotent ==
    [][ \A job_id \in JobIdInputs :
          ( /\ dbUp
            /\ ObjectId_valid(job_id)
            /\ Stored(ObjectId(job_id))
            /\ finalize_video(job_id) )
          => LET i == IndexOf(ObjectId(job_id))
             IN  /\ resp' = Ok([id |-> job_id, status |-> "finalized"])
                 /\ jobs' = [jobs EXCEPT ![i].status = "finalized"]
                 /\ (jobs[i].status = "finalized" => jobs' = jobs)
                 /\ update_one_status(jobs', ObjectId(job_id), "finalized") = jobs'
                 /\ users' = users ]_vars

\* A job created by this process has been finalized, the last time under the
\* upper-case spelling of its id.
C4_Witness ==
    /\ dbUp
    /\ req.op = "finalize"
    /\ req.input.job_id[1] = "HEX"
    /\ Stored(ObjectId(req.input.job_id))
    /\ jobs[IndexOf(ObjectId(req.input.job_id))].created_at > 0
    /\ jobs[IndexOf(ObjectId(req.input.job_id))].status = "finalized"
    /\ resp = Ok([id |-> req.input.job_id, status |-> "finalized"])

\* C5: with the store available, get answers 404 "Not found" for a malformed
\* id and for a well-formed id of no stored job, and changes nothing.
C5_GetUnknownIsNotFound ==
    [][ \A job_id \in JobIdInputs :
          ( /\ dbUp
            /\ (~ObjectId_valid(job_id) \/ ~Stored(ObjectId(job_id)))
            /\ get_video(job_id) )
          => /\ resp' = HTTPException(404, "Not found")
             /\ jobs' = jobs
             /\ users' = users ]_vars

\* A malformed id has been fetched from a store that holds jobs.
C5_Witness ==
    /\ dbUp
    /\ req.op = "get"
    /\ ~ObjectId_valid(req.input.job_id)
    /\ Len(jobs) > 0
    /\ resp = HTTPException(404, "Not found")

\* C6: a dashboard of owner o between whose queries no write to videojob
\* landed (it ran after the creates and finalizes before it) reports total =
\* the number of o's jobs, processing = the number of o's jobs with status
\* queued or processing, and videos = the min(20, total) latest created of o's
\* jobs, latest first, none of another owner.  Checked under SpecDash.
C6_DashboardSummary ==
    (req.op = "dashboard" /\ resp.status = 200 /\ dashClean) =>
        LET o == EmailStr(req.input.email)
            mine == {i \in 1..Len(jobs) : jobs[i].owner_email = o}
            v == resp.body.videos
            shown == {ObjectId(v[k].id) : k \in 1..Len(v)}
        IN  /\ resp.body.total = Cardinality(mine)
            /\ resp.body.processing =
                 Cardinality({i \in mine : jobs[i].status \in {"queued", "processing"}})
            /\ Len(v) = Min(20, Cardinality(mine))
            /\ \A k \in 1..Len(v) :
                 /\ v[k].owner_email = o
                 /\ \E i \in mine : with_id(jobs[i]) = v[k]
            /\ \A k \in 1..(Len(v) - 1) : v[k].created_at > v[k + 1].created_at
            /\ \A i \in mine :
                 jobs[i]._id \notin shown
                   => \A k \in 1..Len(v) : jobs[i].created_at < v[k].created_at

\* An owner with more than 20 jobs, some processing and some finalized, has
\* been shown 20 videos by a dashboard that no write disturbed, with another
\* owner's job in the store.
C6_Witness ==
    /\ req.op = "dashboard"
    /\ resp.status = 200
    /\ dashClean
    /\ resp.body.total > 20
    /\ Len(resp.body.videos) = 20
    /\ resp.body.processing > 0
    /\ resp.body.processing < resp.body.total
    /\ resp.body.videos[1].status = "processing"
    /\ \E i \in 1..Len(jobs) : jobs[i].owner_email # EmailStr(req.input.email)

\* C7: for a valid payload, create answers an id that no stored job had, and a
\* get of that id returns the submitted payload fields and status
\* "processing"; the record a get returns changes only in a finalize of its id.
C7_CreateThenFetchRoundTrip ==
    [][ /\ \A job \in ValidJobInputs :
             ( /\ dbUp
               /\ create_video(job) )
             => /\ resp'.status = 200
                /\ ~Stored(ObjectId(resp'.body.id))
                /\ LET r == get_video_response(jobs', resp'.body.id)
                   IN  /\ r.status = 200
                       /\ r.body.status = "processing"
                       /\ \A f \in PayloadFields : r.body[f] = job[f]
        /\ \A job_id \in JobIdInputs :
             ( /\ ObjectId_valid(job_id)
               /\ Stored(ObjectId(job_id))
               /\ ~\E s \in JobIdInputs :
                      /\ ObjectId_valid(s)
                      /\ ObjectId(s) = ObjectId(job_id)
                      /\ finalize_video(s) )
             => get_video_response(jobs', job_id) = get_video_response(jobs, job_id) ]_vars

\* C10: with the store available, finalize answers 400 "Invalid id" exactly
\* for a malformed id; for a well-formed id of no stored job it answers 200
\* with that id and "finalized", leaves the collection as it is, and a get of
\* the id is still 404.
C10_FinalizeUnknownIsNoop ==
    [][ \A job_id \in JobIdInputs :
          ( /\ dbUp
            /\ finalize_video(job_id) )
          => IF ~ObjectId_valid(job_id)
             THEN /\ resp' = HTTPException(400, "Invalid id")
                  /\ jobs' = jobs
             ELSE /\ resp' = Ok([id |-> job_id, status |-> "finalized"])
                  /\ ~Stored(ObjectId(job_id))
                       => /\ jobs' = jobs
                          /\ get_video_response(jobs', job_id) = HTTPException(404, "Not found") ]_vars

\* A well-formed id of no stored job has been finalized in a store that holds
\* jobs.
C10_Witness ==
    /\ dbUp
    /\ req.op = "finalize"
    /\ ObjectId_valid(req.input.job_id)
    /\ ~Stored(ObjectId(req.input.job_id))
    /\ Len(jobs) > 0
    /\ resp = Ok([id |-> req.input.job_id, status |-> "finalized"])

===========================================================================
